---- MODULE Spec2Model ----
(***************************************************************************)
(* ACME suite for node.js: the JWS/HTTPS transport (lib/jweb-client.js)    *)
(* and the ACME protocol engine (lib/acme-client.js) as one state machine. *)
(* One action per asynchronous step: a call of a top-level operation, the  *)
(* completion of an HTTPS request (with the whole continuation the code    *)
(* runs synchronously from it), a poller wake-up, a file-system            *)
(* completion, the user's "press enter".                                   *)
(***************************************************************************)
EXTENDS Integers, Sequences, FiniteSets, TLC

\* ------------------------------------------------------------- bounds
\* number of replay-nonces the server hands out in one behaviour
MaxNonce == 3
\* longest challenge list a new-authz response carries
MaxChallenges == 2
\* number of TOS agreements after which the server stops answering 403
MaxTosCycles == 2
\* number of requests issued on one client without waiting for each other
MaxRequests == 3
\* longest name given to makeSafeFileName
MaxNameLen == 2
\* longest contact list of a profile given to extractEmail
MaxContacts == 2
\* largest days_valid, in quarters of a day
MaxQuarters == 5
\* latest reading of the clock, in milliseconds
MaxTick == 1

VARIABLES
    last_nonce,           \* JWebClient#last_nonce
    clientProfilePubKey,  \* AcmeClient#clientProfilePubKey
    directory,            \* AcmeClient#directory
    regLink,              \* AcmeClient#regLink
    tosLink,              \* AcmeClient#tosLink
    withInteraction,      \* AcmeClient#withInteraction
    op,                   \* the top-level operation the caller invoked
    pc,                   \* the asynchronous event the operation waits for
    req,                  \* the HTTPS request last issued
    retry,                \* retry factor of the running poller
    uri,                  \* uri parameter of the running poller
    poll_uri,             \* authorizeDomain: var poll_uri
    challenge,            \* authorizeDomain: var challenge
    cbCount,              \* invocations of the caller's callback
    result,               \* first argument of the caller's callback
    issued,               \* server: replay-nonces handed out so far
    signed,               \* nonces that signed a POST so far
    reused,               \* a POST was signed with a nonce of an earlier POST
    prev,                 \* replay-nonce header of the response received last
    last,                 \* the response the running continuation was given
    gets,                 \* polling GETs issued by the running operation
    tosPosts,             \* TOS-agreement POSTs issued by the running operation
    hist,                 \* what the server answered the running operation
    flight,               \* the requests issued without waiting, in order
    input,                \* the arguments a helper function is called with
    output                \* what the calls of the helper returned, in order

vars == <<last_nonce, clientProfilePubKey, directory, regLink, tosLink,
          withInteraction, op, pc, req, retry, uri, poll_uri, challenge, cbCount,
          result, issued, signed, reused, prev, last, gets, tosPosts, hist,
          flight, input, output>>

\* ------------------------------------------------ JavaScript values
\* A value the transport hands to a continuation is a record tagged by t:
\*   "undefined"           void 0
\*   "falsy"               JSON null, false, 0 or ""
\*   "prim"                any other JSON number, or true
\*   "string"              a non-empty string
\*   "array"               a JSON array
\*   "object"              a JSON object, with the fields the engine reads
\*   "Buffer"              raw bytes, len 0 (empty body) or 1 (non-empty)
Undefined == [t |-> "undefined"]
False == [t |-> "false"]
True == [t |-> "true"]
NoResult == [t |-> "none"]

\* x instanceof Object: arrays and Buffers are objects too
InstanceOfObject(v) == v.t \in {"object", "array", "Buffer", "Error", "res"}

\* x instanceof Buffer
InstanceOfBuffer(v) == v.t = "Buffer"

\* !x : every object, an empty Buffer included, is truthy
Not(v) == v.t \in {"undefined", "falsy", "false"}

\* ans[name] where the field holds a string: "undefined" unless an object
\* has the field
FieldStr(v, name) ==
    IF v.t \in {"object", "res"} /\ name \in DOMAIN v THEN v[name]
    ELSE "undefined"

\* ans[name] where the field holds an object or a list: Undefined unless an
\* object has the field
FieldVal(v, name) ==
    IF v.t = "object" /\ name \in DOMAIN v THEN v[name] ELSE Undefined

\* res["statusCode"] < n, >= n, == n: every comparison with the undefined
\* statusCode of a value that is no response is false
StatusLt(res, n) == res.t = "res" /\ res.statusCode < n
StatusLe(res, n) == res.t = "res" /\ res.statusCode <= n
StatusGe(res, n) == res.t = "res" /\ res.statusCode >= n
StatusEq(res, n) == res.t = "res" /\ res.statusCode = n

\* (res instanceof Object) && (res["headers"] instanceof Object)
HasHeaders(res) == res.t = "res"

\* res.headers[name], undefined when the header is absent
Header(res, name) == IF HasHeaders(res) THEN res[name] ELSE "undefined"

NonceName == <<"n1", "n2", "n3", "n4", "n5", "n6", "n7", "n8">>
FreshNonces == {NonceName[i] : i \in 1..(MaxNonce + 1)}

\* the pieces of a sequence of sequences, one after the other
RECURSIVE join(_)
join(pieces) ==
    IF pieces = <<>> THEN <<>> ELSE Head(pieces) \o join(Tail(pieces))

\* the w binary digits of n, the highest first, and the number they denote
toBits(n, w) == [i \in 1..w |-> (n \div (2 ^ (w - i))) % 2]

RECURSIVE fromBits(_)
fromBits(bits) ==
    IF bits = <<>> THEN 0
    ELSE 2 * fromBits(SubSeq(bits, 1, Len(bits) - 1)) + bits[Len(bits)]

\* base64url.encode of bytes: groups of six bits, the last one filled with
\* zeros, no padding character, in the alphabet A-Z a-z 0-9 - _
base64url_encode(bytes) ==
    LET base64url_char(v) ==
            IF v < 26 THEN 65 + v
            ELSE IF v < 52 THEN 97 + (v - 26)
            ELSE IF v < 62 THEN 48 + (v - 52)
            ELSE IF v = 62 THEN 45 ELSE 95
        bits == join([i \in DOMAIN bytes |-> toBits(bytes[i], 8)])
        fill == [i \in 1..((6 - (Len(bits) % 6)) % 6) |-> 0]
        all == bits \o fill
    IN  [i \in 1..(Len(all) \div 6) |->
            base64url_char(fromBits(SubSeq(all, 6 * i - 5, 6 * i)))]

\* base64url.toBuffer of a string: the whole bytes its characters denote
base64url_toBuffer(str) ==
    LET base64url_value(c) ==
            IF c \in 65..90 THEN c - 65
            ELSE IF c \in 97..122 THEN 26 + (c - 97)
            ELSE IF c \in 48..57 THEN 52 + (c - 48)
            ELSE IF c = 45 THEN 62 ELSE 63
        bits == join([i \in DOMAIN str |-> toBits(base64url_value(str[i]), 6)])
    IN  [i \in 1..(Len(bits) \div 8) |-> fromBits(SubSeq(bits, 8 * i - 7, 8 * i))]

\* ----------------------------------------------------- JWebClient
\* The text JSON.stringify writes is a sequence of tokens, a token being a
\* punctuation mark or a quoted string; utf8 gives each token one byte, its
\* place in this list.
JsonTokens ==
    <<"{", "}", ":", ",", "typ", "alg", "jwk", "nonce", "JWT", "RS256",
      "public_jwk", "", "n1", "null", "hello", "world", "resource", "new-reg">>

\* the order in which createJWT assigns the header's fields
HeaderNames == <<"typ", "alg", "jwk", "nonce">>

\* JSON.stringify of an object whose fields were assigned in the order of
\* names: a field that is absent or undefined is left out
JSONstringify(obj, names) ==
    LET present == SelectSeq(names, LAMBDA nm : nm \in DOMAIN obj /\ obj[nm] # "undefined")
        member(k) == (IF k = 1 THEN <<>> ELSE <<",">>) \o <<present[k], ":", obj[present[k]]>>
    IN  <<"{">> \o join([k \in DOMAIN present |-> member(k)]) \o <<"}">>

\* new Buffer(text, 'utf8') and buffer.toString('utf8')
utf8(text) ==
    [i \in DOMAIN text |-> CHOOSE b \in DOMAIN JsonTokens : JsonTokens[b] = text[i]]
fromUtf8(bytes) == [i \in DOMAIN bytes |-> JsonTokens[bytes[i]]]

\* JSON.parse of the text of an object
JSONparseText(text) ==
    LET count == (Len(text) - 1) \div 4
    IN  [nm \in {text[4 * k - 2] : k \in 1..count} |->
            text[(CHOOSE k \in 1..count : text[4 * k - 2] = nm) * 4]]

json_to_utf8base64url(obj, names) == base64url_encode(utf8(JSONstringify(obj, names)))

\* jwa(alg).sign(data, key): a base64url string that depends on both
sign(data, key) ==
    LET RECURSIVE sum(_)
        sum(str) == IF str = <<>> THEN 0 ELSE (Head(str) + sum(Tail(str))) % 256
    IN  base64url_encode(<<sum(data), sum(key)>>)

\* the header with the nonce set unless it is undefined
jwtHeader_undefinedOnly(nonce, alg, jwk) ==
    IF nonce # "undefined"
    THEN [typ |-> "JWT", alg |-> alg, jwk |-> jwk, nonce |-> nonce]
    ELSE [typ |-> "JWT", alg |-> alg, jwk |-> jwk]

\* createJWT: the JWS header; nonce is set only if nonce != void 0, which
\* null and undefined both fail
jwtHeader(nonce, alg, jwk) ==
    IF nonce \notin {"null", "undefined"}
    THEN [typ |-> "JWT", alg |-> alg, jwk |-> jwk, nonce |-> nonce]
    ELSE [typ |-> "JWT", alg |-> alg, jwk |-> jwk]

\* createJWT: header, payload and signature joined by "."; a key that is
\* an object is the bytes its k denotes.  payloadNames is the order of the
\* payload's fields.
createJWT(nonce, payload, payloadNames, alg, key, jwk) ==
    LET k == IF key.t = "object" THEN base64url_toBuffer(key.k) ELSE key.s
        in == json_to_utf8base64url(jwtHeader(nonce, alg, jwk), HeaderNames)
              \o <<46>> \o json_to_utf8base64url(payload, payloadNames)
    IN  in \o <<46>> \o sign(in, k)

\* JSON.parse of a response body: raw bytes that are no JSON text throw
JSONparse(raw) ==
    IF raw.k = "json" THEN [ok |-> TRUE, json |-> raw.v]
    ELSE [ok |-> FALSE, json |-> Undefined]

\* Buffer.concat(data) of the received blocks
BufferOf(raw) == [t |-> "Buffer", len |-> IF raw.k = "empty" THEN 0 ELSE 1]

\* the res object of a completed response
ResOf(w) ==
    [t |-> "res", statusCode |-> w.status, nonce |-> w.nonce,
     location |-> w.location, link |-> w.link]

\* the Error object an error callback receives as its second argument
ErrorObj == [t |-> "Error"]

\* request: which callback runs, and with what.  cb is "callback" or
\* "errorCallback"; a transport error and a JSON decode error both end in
\* errorCallback(void 0, e).
request(w) ==
    IF w.neterr
    THEN [cb |-> "errorCallback", ans |-> Undefined, res |-> ErrorObj]
    ELSE IF w.ctJson /\ w.raw.k # "empty"
         THEN IF JSONparse(w.raw).ok
              THEN [cb |-> "callback", ans |-> JSONparse(w.raw).json,
                    res |-> ResOf(w)]
              ELSE [cb |-> "errorCallback", ans |-> Undefined,
                    res |-> ErrorObj]
         ELSE [cb |-> "callback", ans |-> BufferOf(w.raw), res |-> ResOf(w)]

\* request: the callbacks it invokes, in order.  throws tells whether the
\* success callback raises an exception: callback(json, res) stands inside
\* the try block, so the catch meant for JSON.parse runs errorCallback too.
request_calls(w, throws) ==
    IF w.neterr THEN <<"errorCallback">>
    ELSE IF w.ctJson /\ w.raw.k # "empty"
         THEN IF JSONparse(w.raw).ok
              THEN IF throws THEN <<"callback", "errorCallback">>
                   ELSE <<"callback">>
              ELSE <<"errorCallback">>
         ELSE <<"callback">>

\* the nonce cache cleared by a request that ended in an error
NonceAfter_clearing(w, cached) ==
    IF request(w).cb = "callback" THEN request(w).res.nonce ELSE "undefined"

\* get/post: the nonce cache after the request completed.  The wrapper that
\* saves res.headers['replay-nonce'] runs only on the success callback; the
\* error callback is handed through untouched.
\* the nonce cache left as it was whatever came back
NonceAfter_stale(w, cached) == cached

NonceAfter(w, cached) ==
    IF request(w).cb = "callback" THEN request(w).res.nonce ELSE cached

\* ------------------------------------------------- the server's answers
directory_url == "https://ca/directory"
Statuses == {200, 201, 400, 403, 500}
RegLocation == "https://ca/reg/1"
AccountLocation == "https://ca/reg/2"
AuthzLocation == "https://ca/authz/1"
CertLocation == "https://ca/cert/1"
TosLinkHeader == "<https://ca/tos>;rel=\"terms-of-service\""
OtherLinkHeader == "<https://ca/next>;rel=\"next\""
ChallengeTypes == {"http-01", "dns-01"}

\* the challenge lists of length <= MaxChallenges; the token of an entry is
\* its position, so that any two entries of a list differ
ChallengeLists ==
    UNION {{[i \in 1..n |-> [t |-> "object", type |-> f[i], token |-> i,
                              uri |-> "https://ca/challenge"]] :
            f \in [1..n -> ChallengeTypes]} : n \in 0..MaxChallenges}

JsonArray == [t |-> "array"]
JsonPrim == [t |-> "prim"]
JsonFalsy == [t |-> "falsy"]
JsonString == [t |-> "string", token |-> 0, jwk |-> <<"text">>]
AccountKey == [t |-> "object", e |-> "AQAB", kty |-> "RSA", n |-> "modulus"]

\* a directory document
DirectoryObject ==
    ("t" :> "object") @@ ("new-reg" :> "https://ca/new-reg")
    @@ ("new-authz" :> "https://ca/new-authz")
    @@ ("new-cert" :> "https://ca/new-cert")

\* registration objects, with and without the account key
RegObjects == {[t |-> "object", key |-> AccountKey], [t |-> "object"]}

\* authorization objects: with a challenge list, with challenges that is
\* no list, and without challenges
AuthzObjects ==
    {[t |-> "object", status |-> "pending",
      challenges |-> [t |-> "array", list |-> c]] : c \in ChallengeLists}
    \cup {[t |-> "object", status |-> "pending", challenges |-> JsonPrim],
          [t |-> "object", status |-> "pending"]}

\* what a poll of an authorization answers
StatusObjects ==
    {[t |-> "object", status |-> st] : st \in {"pending", "valid", "invalid"}}
    \cup {[t |-> "object"]}

\* a response body on the wire: content-type contains "json" or not, and
\* the bytes: none, bytes that are no JSON text, or the JSON text of v
Bodies(jsonValues) ==
    {[ctJson |-> c, raw |-> r] :
        c \in BOOLEAN,
        r \in {[k |-> "empty"], [k |-> "bytes"]}
              \cup {[k |-> "json", v |-> v] : v \in jsonValues}}

\* the replay-nonce a response may carry: none, or the next fresh one
AnyNonce ==
    {"undefined"} \cup
    (IF issued < MaxNonce THEN {NonceName[issued + 1]} ELSE {})

\* the replay-nonce of a CA that sends one with every response, as long as
\* it has any
CaNonce ==
    IF issued < MaxNonce THEN {NonceName[issued + 1]} ELSE {"undefined"}

NoResponse ==
    [neterr |-> TRUE, status |-> 0, ctJson |-> FALSE, raw |-> [k |-> "empty"],
     nonce |-> "undefined", location |-> "undefined", link |-> "undefined"]

\* the outcomes of a request: no response at all, or a response with a
\* status, a body, and the headers the transport and the engine read
Wires(statuses, bodies, nonces, locations, links) ==
    {NoResponse} \cup
    {[neterr |-> FALSE, status |-> st, ctJson |-> b.ctJson, raw |-> b.raw,
      nonce |-> nh, location |-> l, link |-> lk] :
        st \in statuses, b \in bodies, nh \in nonces,
        l \in locations, lk \in links}

\* ------------------------------------------------------- AcmeClient
\* The engine's fields, before an operation's locals are bound
Fresh ==
    [directory |-> directory, regLink |-> regLink, tosLink |-> tosLink,
     clientProfilePubKey |-> clientProfilePubKey, uri |-> "undefined",
     poll_uri |-> "undefined", challenge |-> Undefined, retry |-> 0]

\* The engine's fields and the locals its continuations close over
Cur ==
    [directory |-> directory, regLink |-> regLink, tosLink |-> tosLink,
     clientProfilePubKey |-> clientProfilePubKey, uri |-> uri,
     poll_uri |-> poll_uri, challenge |-> challenge, retry |-> retry]

\* What a continuation ends in: a request issued, the caller's callback
\* invoked, an asynchronous completion awaited, or nothing at all.
DoPost(s, url, payload, k) ==
    [s |-> s, do |-> "post", url |-> url, payload |-> payload, k |-> k]
DoGet(s, url, k) == [s |-> s, do |-> "get", url |-> url, k |-> k]
DoCallback(s, v) == [s |-> s, do |-> "callback", v |-> v]
DoWait(s, k) == [s |-> s, do |-> "wait", k |-> k]
DoNothing(s) == [s |-> s, do |-> "nothing"]

domain == "www.example.com"
EmptyString == [t |-> "string", token |-> 0, jwk |-> <<>>]

makeDomainAuthorizationRequest(d) ==
    [resource |-> "new-authz", identifier |-> [type |-> "dns", value |-> d]]

\* makeKeyAuthorization hashing the type of the challenge as well
makeKeyAuthorization_withType(s, ch) ==
    IF InstanceOfObject(ch)
    THEN IF InstanceOfObject(s.clientProfilePubKey)
         THEN [t |-> "string", token |-> ch.token,
               jwk |-> <<FieldStr(s.clientProfilePubKey, "e"),
                         FieldStr(s.clientProfilePubKey, "kty"),
                         FieldStr(s.clientProfilePubKey, "n"), ch.type>>]
         ELSE Undefined
    ELSE EmptyString

\* token + "." + base64url(sha256(JSON of {e, kty, n})); nothing is returned
\* when the cached key is no object
makeKeyAuthorization(s, ch) ==
    IF InstanceOfObject(ch)
    THEN IF InstanceOfObject(s.clientProfilePubKey)
         THEN [t |-> "string", token |-> ch.token,
               jwk |-> <<FieldStr(s.clientProfilePubKey, "e"),
                         FieldStr(s.clientProfilePubKey, "kty"),
                         FieldStr(s.clientProfilePubKey, "n")>>]
         ELSE Undefined
    ELSE EmptyString

makeChallengeResponse(s, ch) ==
    [resource |-> "challenge", keyAuthorization |-> makeKeyAuthorization(s, ch)]

\* 1000 * 60 * 60 * 24 / 4: the milliseconds of a quarter of a day
MsPerQuarter == 21600000

\* a number is given in quarters of a day, a date in milliseconds (what
\* toISOString prints); clock holds the readings of the two new Date()
makeCertRequest(csr, days_valid, clock) ==
    LET abs(x) == IF x < 0 THEN -x ELSE x
        bytes == IF csr.t = "string" THEN csr.s
                 ELSE IF csr.t = "Buffer" THEN csr.bytes ELSE <<>>
        q == IF days_valid.t # "number" \/ days_valid.nan \/ days_valid.q = 0
             THEN 4 ELSE days_valid.q
    IN  [resource |-> "new-cert",
         csr |-> [t |-> "string", s |-> base64url_encode(bytes)],
         notBefore |-> clock[1],
         notAfter |-> clock[2] + MsPerQuarter * abs(q)]

\* the regular expression <([^>]+)>;rel="terms-of-service"
getTosLink(linkStr) ==
    IF linkStr = TosLinkHeader THEN "https://ca/tos" ELSE "undefined"

\* filter by type, then pop(): the last of the matching entries
selectChallenge(ans, challenge_type) ==
    IF InstanceOfObject(ans) /\ FieldVal(ans, "challenges").t = "array"
    THEN LET match(entry) == entry.type = challenge_type
             found == SelectSeq(ans.challenges.list, match)
         IN  IF found = <<>> THEN Undefined ELSE found[Len(found)]
    ELSE Undefined

\* the callback handed to a poller or to requestSigning
TopCallback(s, v) == DoCallback(s, v)

\* pollUntilValid with the ceiling of the retry factor doubled
pollUntilValid_ceiling256(s, u, r) ==
    LET rr == IF r = 0 THEN 1 ELSE r
        s1 == [s EXCEPT !.uri = u, !.retry = rr]
    IN  IF rr > 256 THEN [s |-> s1, do |-> "callback", v |-> False]
        ELSE DoGet(s1, u, "pollValid")

pollUntilValid(s, u, r) ==
    LET rr == IF r = 0 THEN 1 ELSE r
        s1 == [s EXCEPT !.uri = u, !.retry = rr]
    IN  IF rr > 128 THEN TopCallback(s1, False)
        ELSE DoGet(s1, u, "pollValid")

\* the continuation of pollUntilValid's GET reporting failure where the code
\* passes the answer on
pollUntilValid_get_failing(s, ans, res) ==
    IF ~InstanceOfObject(ans) THEN [s |-> s, do |-> "callback", v |-> False]
    ELSE IF FieldStr(ans, "status") = "pending"
         THEN [s |-> s, do |-> "wait", k |-> "timerValid",
               delay |-> s.retry * 500]
    ELSE [s |-> s, do |-> "callback", v |-> False]

pollUntilValid_get(s, ans, res) ==
    IF ~InstanceOfObject(ans) THEN TopCallback(s, False)
    ELSE IF FieldStr(ans, "status") = "pending"
         THEN [s |-> s, do |-> "wait", k |-> "timerValid",
               delay |-> s.retry * 500]
    ELSE TopCallback(s, ans)

\* requestCertificate: the continuation of requestSigning
requestCertificate_requestSigning(s, cert) ==
    IF InstanceOfBuffer(cert) \/ cert.t = "string" THEN DoWait(s, "writeFile")
    ELSE TopCallback(s, False)

\* the continuation of fs.writeFile reporting true whatever the outcome
requestCertificate_writeFile_ignoringError(s, err) ==
    [s |-> s, do |-> "callback", v |-> True]

\* requestCertificate: the continuation of fs.writeFile
requestCertificate_writeFile(s, err) ==
    IF err THEN TopCallback(s, False) ELSE TopCallback(s, True)

\* the callback requestSigning was called with
SigningCallback(s, v) ==
    IF op = "requestCertificate" THEN requestCertificate_requestSigning(s, v)
    ELSE TopCallback(s, v)

pollUntilIssued(s, u, r) ==
    LET rr == IF r = 0 THEN 1 ELSE r
        s1 == [s EXCEPT !.uri = u, !.retry = rr]
    IN  IF rr > 128 THEN SigningCallback(s1, False)
        ELSE DoGet(s1, u, "pollIssued")

\* the continuation of pollUntilIssued's GET with the status test off by one
pollUntilIssued_get_le400(s, ans, res) ==
    IF InstanceOfBuffer(ans) /\ ans.len > 0 THEN SigningCallback(s, ans)
    ELSE IF InstanceOfObject(res) /\ StatusLe(res, 400)
         THEN [s |-> s, do |-> "wait", k |-> "timerIssued",
               delay |-> s.retry * 500]
         ELSE SigningCallback(s, False)

pollUntilIssued_get(s, ans, res) ==
    IF InstanceOfBuffer(ans) /\ ans.len > 0 THEN SigningCallback(s, ans)
    ELSE IF InstanceOfObject(res) /\ StatusLt(res, 400)
         THEN [s |-> s, do |-> "wait", k |-> "timerIssued",
               delay |-> s.retry * 500]
         ELSE SigningCallback(s, False)

\* requestSigning: the continuation of the new-cert POST
requestSigning_post(s, ans, res) ==
    IF InstanceOfBuffer(ans) /\ ans.len > 0 THEN SigningCallback(s, ans)
    ELSE IF InstanceOfObject(res)
         THEN IF StatusLt(res, 400) /\ Not(ans)
              THEN pollUntilIssued(s, Header(res, "location"), 0)
              ELSE SigningCallback(s, IF StatusLt(res, 400) THEN ans ELSE False)
         ELSE SigningCallback(s, False)

\* this.days_valid = 1
ctx_days_valid == [t |-> "number", nan |-> FALSE, q |-> 4]

\* the readings of the clock by two successive new Date()
Clocks == (0..MaxTick) \X (0..MaxTick)

\* the file <domain>.csr as read: a DER sequence
CsrFile == [t |-> "Buffer", len |-> 2, bytes |-> <<48, 130>>]

\* requestSigning: the continuation of fs.readFile
requestSigning_readFile(s, err, csr, clock) ==
    IF err THEN SigningCallback(s, False)
    ELSE DoPost(s, FieldStr(s.directory, "new-cert"),
                makeCertRequest(csr, ctx_days_valid, clock), "newCert")

requestSigning(s) == DoWait(s, "readFile")

\* requestCertificate: the continuation of createKeyPair
requestCertificate_createKeyPair(s, e) ==
    IF ~e THEN requestSigning(s) ELSE TopCallback(s, False)

\* requestCertificate: the continuation of getProfile; the profile is used
\* for the email address only
requestCertificate_getProfile(s, profile) ==
    [s |-> s, do |-> "wait", k |-> "exec", profile |-> profile]

acceptChallenge(s, ch) ==
    DoPost(s, FieldStr(ch, "uri"), makeChallengeResponse(s, ch), "accept")

\* the continuation of acceptChallenge with the status test off by one
authorizeDomain_accept_le400(s, ans, res) ==
    IF InstanceOfObject(res) /\ StatusLe(res, 400)
    THEN pollUntilValid(s, s.poll_uri, 0)
    ELSE TopCallback(s, False)

\* authorizeDomain: the continuation of acceptChallenge
authorizeDomain_accept(s, ans, res) ==
    IF InstanceOfObject(res) /\ StatusLt(res, 400)
    THEN pollUntilValid(s, s.poll_uri, 0)
    ELSE TopCallback(s, False)

\* prepareChallenge: the continuation of writeChallenge
prepareChallenge_write(s, err, interactive) ==
    IF err THEN acceptChallenge(s, s.challenge)
    ELSE IF interactive THEN DoWait(s, "question")
    ELSE acceptChallenge(s, s.challenge)

prepareChallenge(s, ch) ==
    IF InstanceOfObject(ch)
    THEN IF ch.type = "http-01" THEN DoWait(s, "writeChallenge")
         ELSE acceptChallenge(s, ch)
    ELSE acceptChallenge(s, ch)

agreeTos(s, link) ==
    DoPost(s, s.regLink, [resource |-> "reg", Agreement |-> link], "tos")

\* the continuation of the new-authz POST without the test of the location
authorizeDomain_post_anyLocation(s, ans, res) ==
    IF InstanceOfObject(res) /\ StatusEq(res, 403)
    THEN agreeTos(s, s.tosLink)
    ELSE IF HasHeaders(res) /\ InstanceOfObject(ans)
         THEN LET ch == selectChallenge(ans, "http-01")
                  s1 == [s EXCEPT !.poll_uri = Header(res, "location"),
                                  !.challenge = ch]
              IN  IF InstanceOfObject(ch) THEN prepareChallenge(s1, ch)
                  ELSE TopCallback(s1, False)
         ELSE TopCallback(s, False)

\* authorizeDomain: the continuation of the new-authz POST
authorizeDomain_post(s, ans, res) ==
    IF InstanceOfObject(res) /\ StatusEq(res, 403)
    THEN agreeTos(s, s.tosLink)
    ELSE IF HasHeaders(res) /\ Header(res, "location") # "undefined"
            /\ InstanceOfObject(ans)
         THEN LET ch == selectChallenge(ans, "http-01")
                  s1 == [s EXCEPT !.poll_uri = Header(res, "location"),
                                  !.challenge = ch]
              IN  IF InstanceOfObject(ch) THEN prepareChallenge(s1, ch)
                  ELSE TopCallback(s1, False)
         ELSE TopCallback(s, False)

\* the continuation of getProfile going on to new-authz whatever the profile
authorizeDomain_profile_unchecked(s, profile) ==
    DoPost(s, FieldStr(s.directory, "new-authz"),
           makeDomainAuthorizationRequest(domain), "newAuthz")

\* authorizeDomain: the continuation of getProfile
authorizeDomain_profile(s, profile) ==
    IF ~InstanceOfObject(profile) THEN TopCallback(s, False)
    ELSE DoPost(s, FieldStr(s.directory, "new-authz"),
                makeDomainAuthorizationRequest(domain), "newAuthz")

\* the callback getProfile was called with
ProfileCallback(s, profile) ==
    IF op = "authorizeDomain" THEN authorizeDomain_profile(s, profile)
    ELSE IF op = "requestCertificate"
         THEN requestCertificate_getProfile(s, profile)
         ELSE TopCallback(s, profile)

getDirectory(s) == DoGet(s, directory_url, "directory")

getProfile(s) == getDirectory(s)

authorizeDomain(s) == getProfile(s)

\* authorizeDomain: the continuation of agreeTos
authorizeDomain_agreeTos(s, ans_, res_) ==
    IF InstanceOfObject(res_) /\ StatusGe(res_, 200) /\ StatusLe(res_, 400)
    THEN authorizeDomain(s)
    ELSE TopCallback(s, False)

\* getRegistration: the continuation of the reg POST; tos tells which
\* callback getRegistration was called with, agreeTos's or getProfile's
getRegistration_post(s, ans, res, tos) ==
    IF InstanceOfObject(ans)
    THEN LET linkStr == Header(res, "link")
             link == IF HasHeaders(res) /\ linkStr # "undefined"
                        /\ getTosLink(linkStr) # "undefined"
                     THEN getTosLink(linkStr) ELSE "null"
             s1 == [s EXCEPT !.clientProfilePubKey = FieldVal(ans, "key"),
                             !.tosLink = link]
         IN  IF tos THEN authorizeDomain_agreeTos(s1, ans, res)
             ELSE ProfileCallback(s1, ans)
    ELSE IF tos THEN authorizeDomain_agreeTos(s, False, Undefined)
         ELSE ProfileCallback(s, False)

\* the continuation of newRegistration falling back to the new-reg URL of
\* the directory as registration link
getProfile_newRegistration_defaultLink(s, ans, res) ==
    LET link == IF InstanceOfObject(res) /\ HasHeaders(res)
                   /\ Header(res, "location") # "undefined"
                THEN Header(res, "location")
                ELSE FieldStr(s.directory, "new-reg")
        s1 == [s EXCEPT !.regLink = link]
    IN  DoPost(s1, s1.regLink, [resource |-> "reg"], "reg")

\* getProfile: the continuation of newRegistration
getProfile_newRegistration(s, ans, res) ==
    IF InstanceOfObject(res) /\ HasHeaders(res)
       /\ Header(res, "location") # "undefined"
    THEN LET s1 == [s EXCEPT !.regLink = Header(res, "location")]
         IN  DoPost(s1, s1.regLink, [resource |-> "reg"], "reg")
    ELSE ProfileCallback(s, False)

\* payload.resource = "new-reg", then the POST with the callback as success
\* and as error callback
newRegistration(s, payload) ==
    DoPost(s, FieldStr(s.directory, "new-reg"),
           [resource |-> "new-reg"] @@ payload, "newReg")

\* the continuation of createAccount's newRegistration without the test of
\* the status
createAccount_newRegistration_anyStatus(s, ans, res) ==
    IF InstanceOfObject(res) /\ HasHeaders(res)
       /\ Header(res, "location") # "undefined"
    THEN LET s1 == [s EXCEPT !.regLink = Header(res, "location")]
         IN  [s |-> s1, do |-> "callback",
              v |-> [t |-> "string", v |-> s1.regLink]]
    ELSE [s |-> s, do |-> "callback", v |-> False]

\* createAccount: the continuation of newRegistration
createAccount_newRegistration(s, ans, res) ==
    IF InstanceOfObject(res) /\ StatusEq(res, 201) /\ HasHeaders(res)
       /\ Header(res, "location") # "undefined"
    THEN LET s1 == [s EXCEPT !.regLink = Header(res, "location")]
         IN  TopCallback(s1, [t |-> "string", v |-> s1.regLink])
    ELSE TopCallback(s, False)

\* createAccount looking the directory up by itself
createAccount_lookup(s, email) ==
    DoGet(s, directory_url, "directory")

createAccount(s, email) ==
    IF email.t = "string"
    THEN newRegistration(s, [contact |-> <<"mailto:" \o email.v>>])
    ELSE TopCallback(s, False)

\* the callback newRegistration was called with
RegistrationCallback(s, ans, res) ==
    IF op = "createAccount" THEN createAccount_newRegistration(s, ans, res)
    ELSE getProfile_newRegistration(s, ans, res)

\* getProfile: the continuation of getDirectory
getProfile_getDirectory(s, dir, res) ==
    IF ~InstanceOfObject(dir) THEN ProfileCallback(s, False)
    ELSE LET s1 == [s EXCEPT !.directory = dir]
         IN  newRegistration(s1, [resource |-> "new-reg"])

\* --------------------------------------------------------- the machine
NoLast == [of |-> "none", w |-> NoResponse]
NoHist ==
    [authz |-> <<>>, accept |-> "none", allPending |-> TRUE, email |-> Undefined,
     exec |-> "none", der |-> "none", write |-> "none", signal |-> FALSE,
     pollAt |-> "undefined", delays |-> <<>>, profile |-> NoResult,
     same |-> FALSE, calls |-> <<>>]

NoInput == [f |-> "none"]

InitBase ==
    /\ last_nonce = "null"
    /\ clientProfilePubKey = [t |-> "object"]
    /\ directory = [t |-> "object"]
    /\ regLink = "null"
    /\ tosLink = "null"
    /\ withInteraction = TRUE
    /\ op = "none"
    /\ pc = "idle"
    /\ req = [method |-> "none"]
    /\ retry = 0
    /\ uri = "undefined"
    /\ poll_uri = "undefined"
    /\ challenge = Undefined
    /\ cbCount = 0
    /\ result = NoResult
    /\ issued = 0
    /\ signed = {}
    /\ reused = FALSE
    /\ prev = "none"
    /\ last = NoLast
    /\ gets = 0
    /\ tosPosts = 0
    /\ hist = NoHist
    /\ flight = <<>>

\* the clients as constructed, no helper called
Init ==
    /\ InitBase
    /\ input = NoInput
    /\ output = <<>>

\* JWebClient.post up to the call of request: the JWS is built with the
\* nonce cached at that moment
post(url, payload, nonce) ==
    [method |-> "POST", url |-> url, payload |-> payload,
     header |-> jwtHeader(nonce, "RS256", "public_jwk")]

\* JWebClient.get up to the call of request
get(url) == [method |-> "GET", url |-> url]

\* The state after a continuation ran to its end: eff is what it ended in,
\* nonce the cached nonce while it ran; first is TRUE in the step that
\* starts an operation.
Apply(eff, nonce, first) ==
    LET jws == post(eff.url, eff.payload, nonce).header
        signing == eff.do = "post" /\ "nonce" \in DOMAIN jws
    IN  /\ directory' = eff.s.directory
        /\ regLink' = eff.s.regLink
        /\ tosLink' = eff.s.tosLink
        /\ clientProfilePubKey' = eff.s.clientProfilePubKey
        /\ uri' = eff.s.uri
        /\ poll_uri' = eff.s.poll_uri
        /\ challenge' = eff.s.challenge
        /\ retry' = eff.s.retry
        /\ pc' = CASE eff.do \in {"post", "get", "wait"} -> eff.k
                   [] eff.do = "callback" -> "idle"
                   [] OTHER -> "hung"
        /\ req' = CASE eff.do = "post" -> post(eff.url, eff.payload, nonce)
                    [] eff.do = "get" -> get(eff.url)
                    [] OTHER -> req
        /\ signed' = IF signing THEN signed \cup {jws.nonce} ELSE signed
        /\ reused' = (reused \/ (signing /\ jws.nonce \in signed))
        /\ cbCount' = (IF first THEN 0 ELSE cbCount)
                      + (IF eff.do # "callback" THEN 0
                         ELSE IF "times" \in DOMAIN eff THEN eff.times ELSE 1)
        /\ result' = IF eff.do = "callback" THEN eff.v
                     ELSE IF first THEN NoResult ELSE result
        /\ gets' = (IF first THEN 0 ELSE gets)
                   + (IF eff.do = "get" /\ eff.k \in {"pollValid", "pollIssued"}
                      THEN 1 ELSE 0)
        /\ tosPosts' = (IF first THEN 0 ELSE tosPosts)
                       + (IF eff.do = "post" /\ eff.k = "tos" THEN 1 ELSE 0)
        /\ flight' = flight
        /\ UNCHANGED <<input, output>>

\* The caller invokes an operation: nothing of an earlier one is pending.
Call(name, eff) ==
    /\ pc = "idle"
    /\ op' = name
    /\ Apply(eff, last_nonce, TRUE)
    /\ last' = NoLast
    /\ UNCHANGED <<last_nonce, issued, prev>>

\* The transport's part of a completed request: the nonce cache, and the
\* record of what came back.
Completed(w) ==
    /\ last_nonce' = NonceAfter(w, last_nonce)
    /\ issued' = IF ~w.neterr /\ w.nonce # "undefined" THEN issued + 1
                 ELSE issued
    /\ prev' = IF w.neterr THEN "no response" ELSE w.nonce
    /\ UNCHANGED <<op, withInteraction>>

\* requestCertificate's continuation of getProfile received the profile
ProfileReceived(eff) ==
    hist' = IF eff.do # "wait" THEN hist
            ELSE IF eff.k # "exec" THEN hist
            ELSE [hist EXCEPT !.profile = eff.profile]

\* The functions the caller gave get or post are invoked as request tells:
\* the result is what the last invocation received, and one function given
\* as callback and as errorCallback counts every invocation.
CallerCallbacks(s, w, calls) ==
    [s |-> s, do |-> "callback",
     v |-> IF calls[Len(calls)] = "callback" THEN request(w).ans
           ELSE [t |-> "errorCallback"],
     times |-> IF hist.same THEN Len(calls) ELSE 1]

\* ---- the caller's invocations
CallGet ==
    /\ Call("get", DoGet(Fresh, "https://ca/any", "get"))
    /\ UNCHANGED withInteraction
    /\ \E same \in BOOLEAN : hist' = [NoHist EXCEPT !.same = same]

CallPost ==
    /\ Call("post", DoPost(Fresh, "https://ca/any", [resource |-> "any"], "post"))
    /\ UNCHANGED withInteraction
    /\ \E same \in BOOLEAN : hist' = [NoHist EXCEPT !.same = same]

CallGetProfile ==
    /\ op = "none"
    /\ Call("getProfile", getProfile(Fresh))
    /\ UNCHANGED withInteraction
    /\ hist' = NoHist

CallAuthorizeDomain ==
    /\ op = "none"
    /\ Call("authorizeDomain", authorizeDomain(Fresh))
    /\ withInteraction' \in BOOLEAN
    /\ hist' = NoHist

CallPollUntilValid ==
    /\ op = "none"
    /\ Call("pollUntilValid", pollUntilValid(Fresh, AuthzLocation, 0))
    /\ UNCHANGED withInteraction
    /\ hist' = NoHist

CallPollUntilIssued ==
    /\ op = "none"
    /\ Call("pollUntilIssued", pollUntilIssued(Fresh, CertLocation, 0))
    /\ UNCHANGED withInteraction
    /\ hist' = NoHist

CallRequestSigning ==
    /\ op = "none"
    /\ Call("requestSigning", requestSigning(Fresh))
    /\ UNCHANGED withInteraction
    /\ hist' = NoHist

CallRequestCertificate ==
    /\ op = "none"
    /\ Call("requestCertificate", getProfile(Fresh))
    /\ UNCHANGED withInteraction
    /\ hist' = NoHist

\* createAccount on an engine as constructed or as a getProfile left it,
\* with an email address or without
Emails == {[t |-> "string", v |-> "a@b.c"], Undefined}

CallCreateAccount ==
    /\ op \in {"none", "getProfile"}
    /\ \E email \in Emails :
        /\ Call("createAccount", createAccount(Fresh, email))
        /\ hist' = [NoHist EXCEPT !.email = email]
    /\ UNCHANGED withInteraction

\* ---- completions of HTTPS requests
\* JWebClient.get called by the caller, with a callback and an errorCallback
GetCompleted ==
    /\ pc = "get"
    /\ \E w \in Wires(Statuses, Bodies({[t |-> "object"], JsonFalsy}), AnyNonce,
                      {"undefined"}, {"undefined"}) :
        /\ Completed(w)
        /\ last' = [of |-> "request", w |-> w]
        /\ \E throws \in BOOLEAN :
            /\ Apply(CallerCallbacks(Cur, w, request_calls(w, throws)),
                     NonceAfter(w, last_nonce), FALSE)
            /\ hist' = [hist EXCEPT !.calls = request_calls(w, throws)]

\* JWebClient.post called by the caller, likewise
PostCompleted ==
    /\ pc = "post"
    /\ \E w \in Wires(Statuses, Bodies({[t |-> "object"], JsonFalsy}), AnyNonce,
                      {"undefined"}, {"undefined"}) :
        /\ Completed(w)
        /\ last' = [of |-> "request", w |-> w]
        /\ \E throws \in BOOLEAN :
            /\ Apply(CallerCallbacks(Cur, w, request_calls(w, throws)),
                     NonceAfter(w, last_nonce), FALSE)
            /\ hist' = [hist EXCEPT !.calls = request_calls(w, throws)]

\* getDirectory: the continuation is success and error callback alike
DirectoryCompleted ==
    /\ pc = "directory"
    /\ \E w \in Wires({200}, Bodies({DirectoryObject, JsonFalsy}), CaNonce,
                      {"undefined"}, {"undefined"}) :
        /\ Completed(w)
        /\ last' = [of |-> "directory", w |-> w]
        /\ Apply(getProfile_getDirectory(Cur, request(w).ans, request(w).res),
                 NonceAfter(w, last_nonce), FALSE)
        /\ ProfileReceived(getProfile_getDirectory(Cur, request(w).ans,
                                                   request(w).res))

\* newRegistration: the continuation is success and error callback alike
NewRegCompleted ==
    /\ pc = "newReg"
    /\ \E w \in Wires({201, 400}, Bodies({[t |-> "object"]}), CaNonce,
                      {"undefined",
                       IF op = "createAccount" THEN AccountLocation
                       ELSE RegLocation},
                      {"undefined"}) :
        /\ Completed(w)
        /\ last' = [of |-> "newReg", w |-> w]
        /\ Apply(RegistrationCallback(Cur, request(w).ans, request(w).res),
                 NonceAfter(w, last_nonce), FALSE)
        /\ ProfileReceived(RegistrationCallback(Cur, request(w).ans,
                                                request(w).res))

\* getRegistration called by getProfile: post is given no errorCallback
RegCompleted ==
    /\ pc = "reg"
    /\ \E w \in Wires({200}, Bodies(RegObjects \cup {JsonArray, JsonFalsy}), CaNonce,
                      {"undefined"},
                      {"undefined", TosLinkHeader, OtherLinkHeader}) :
        /\ Completed(w)
        /\ last' = [of |-> "reg", w |-> w]
        /\ Apply(IF request(w).cb = "callback"
                 THEN getRegistration_post(Cur, request(w).ans, request(w).res,
                                           FALSE)
                 ELSE DoNothing(Cur),
                 NonceAfter(w, last_nonce), FALSE)
        /\ ProfileReceived(IF request(w).cb = "callback"
                           THEN getRegistration_post(Cur, request(w).ans,
                                                     request(w).res, FALSE)
                           ELSE DoNothing(Cur))

\* getRegistration called by agreeTos
TosCompleted ==
    /\ pc = "tos"
    /\ \E w \in Wires(Statuses, Bodies(RegObjects \cup {JsonFalsy}), CaNonce,
                      {"undefined"}, {"undefined", TosLinkHeader}) :
        /\ Completed(w)
        /\ last' = [of |-> "tos", w |-> w]
        /\ Apply(IF request(w).cb = "callback"
                 THEN getRegistration_post(Cur, request(w).ans, request(w).res,
                                           TRUE)
                 ELSE DoNothing(Cur),
                 NonceAfter(w, last_nonce), FALSE)
    /\ UNCHANGED hist

\* how the engine's input classifies a new-authz response
AuthzClass(w) ==
    IF request(w).cb # "callback" THEN "error"
    ELSE IF w.status = 403 THEN "403"
    ELSE IF /\ w.location # "undefined"
            /\ request(w).ans.t = "object"
            /\ FieldVal(request(w).ans, "challenges").t = "array"
            /\ \E i \in DOMAIN request(w).ans.challenges.list :
                  request(w).ans.challenges.list[i].type = "http-01"
         THEN "good"
         ELSE "other"

\* the new-authz POST of authorizeDomain: no errorCallback
NewAuthzCompleted ==
    /\ pc = "newAuthz"
    /\ \E w \in Wires(IF tosPosts < MaxTosCycles THEN {201, 403, 500}
                      ELSE {201, 500},
                      Bodies(AuthzObjects \cup {JsonArray, JsonFalsy}), CaNonce,
                      {"undefined", AuthzLocation, "https://ca/authz/2"},
                      {"undefined"}) :
        /\ Completed(w)
        /\ last' = [of |-> "newAuthz", w |-> w]
        /\ Apply(IF request(w).cb = "callback"
                 THEN authorizeDomain_post(Cur, request(w).ans, request(w).res)
                 ELSE DoNothing(Cur),
                 NonceAfter(w, last_nonce), FALSE)
        /\ hist' = [hist EXCEPT !.authz = Append(@, AuthzClass(w)),
                                !.pollAt = w.location]

\* fs.writeFile of the key authorization completed, with or without error
WriteChallengeCompleted ==
    /\ pc = "writeChallenge"
    /\ \E err \in BOOLEAN :
        /\ Apply(prepareChallenge_write(Cur, err, withInteraction), last_nonce,
                 FALSE)
        /\ hist' = [hist EXCEPT !.write = IF err THEN "error" ELSE "written"]
    /\ last' = NoLast
    /\ UNCHANGED <<last_nonce, issued, prev, op, withInteraction>>

\* the user pressed enter
QuestionAnswered ==
    /\ pc = "question"
    /\ Apply(acceptChallenge(Cur, challenge), last_nonce, FALSE)
    /\ hist' = [hist EXCEPT !.signal = TRUE]
    /\ last' = NoLast
    /\ UNCHANGED <<last_nonce, issued, prev, op, withInteraction>>

\* acceptChallenge: only a success callback is given
AcceptCompleted ==
    /\ pc = "accept"
    /\ \E w \in Wires({200, 202, 400, 500}, Bodies({[t |-> "object"]}), CaNonce,
                      {"undefined"}, {"undefined"}) :
        /\ Completed(w)
        /\ last' = NoLast
        /\ Apply(IF request(w).cb = "callback"
                 THEN authorizeDomain_accept(Cur, request(w).ans, request(w).res)
                 ELSE DoNothing(Cur),
                 NonceAfter(w, last_nonce), FALSE)
        /\ hist' = [hist EXCEPT !.accept =
                        IF request(w).cb # "callback" THEN "error"
                        ELSE IF w.status < 400 THEN "lt400" ELSE "ge400"]

\* the GET of pollUntilValid: no errorCallback
PollValidCompleted ==
    /\ pc = "pollValid"
    /\ \E w \in Wires({200},
                      Bodies(StatusObjects \cup {JsonArray, JsonFalsy}), CaNonce,
                      {"undefined"}, {"undefined"}) :
        /\ Completed(w)
        /\ last' = [of |-> "pollValid", w |-> w]
        /\ Apply(IF request(w).cb = "callback"
                 THEN pollUntilValid_get(Cur, request(w).ans, request(w).res)
                 ELSE DoNothing(Cur),
                 NonceAfter(w, last_nonce), FALSE)
        /\ hist' = [hist EXCEPT !.allPending =
                        @ /\ request(w).cb = "callback"
                          /\ request(w).ans.t = "object"
                          /\ FieldStr(request(w).ans, "status") = "pending",
                                !.delays =
                        LET eff == pollUntilValid_get(Cur, request(w).ans,
                                       request(w).res)
                        IN  IF request(w).cb # "callback" THEN @
                            ELSE IF eff.do # "wait" THEN @
                            ELSE IF eff.k # "timerValid" THEN @
                            ELSE Append(@, eff.delay)]

\* setTimeout of pollUntilValid fired
PollValidTimer ==
    /\ pc = "timerValid"
    /\ Apply(pollUntilValid(Cur, uri, retry * 2), last_nonce, FALSE)
    /\ last' = NoLast
    /\ UNCHANGED <<last_nonce, issued, prev, op, withInteraction, hist>>

\* the GET of pollUntilIssued: no errorCallback
PollIssuedCompleted ==
    /\ pc = "pollIssued"
    /\ \E w \in Wires({200, 202, 400, 500}, Bodies({[t |-> "object"], JsonFalsy}), CaNonce,
                      {"undefined"}, {"undefined"}) :
        /\ Completed(w)
        /\ last' = [of |-> "pollIssued", w |-> w]
        /\ Apply(IF request(w).cb = "callback"
                 THEN pollUntilIssued_get(Cur, request(w).ans, request(w).res)
                 ELSE DoNothing(Cur),
                 NonceAfter(w, last_nonce), FALSE)
        /\ hist' = [hist EXCEPT !.allPending =
                        @ /\ request(w).cb = "callback"
                          /\ w.raw.k = "empty" /\ w.status < 400,
                                !.delays =
                        LET eff == pollUntilIssued_get(Cur, request(w).ans,
                                       request(w).res)
                        IN  IF request(w).cb # "callback" THEN @
                            ELSE IF eff.do # "wait" THEN @
                            ELSE IF eff.k # "timerIssued" THEN @
                            ELSE Append(@, eff.delay)]

\* setTimeout of pollUntilIssued fired, the factor tripled
PollIssuedTimer_tripling ==
    /\ pc = "timerIssued"
    /\ Apply(pollUntilIssued(Cur, uri, retry * 3), last_nonce, FALSE)
    /\ last' = NoLast
    /\ UNCHANGED <<last_nonce, issued, prev, op, withInteraction, hist>>

\* setTimeout of pollUntilIssued fired
PollIssuedTimer ==
    /\ pc = "timerIssued"
    /\ Apply(pollUntilIssued(Cur, uri, retry * 2), last_nonce, FALSE)
    /\ last' = NoLast
    /\ UNCHANGED <<last_nonce, issued, prev, op, withInteraction, hist>>

\* fs.readFile of <domain>.csr completed, with or without error
ReadFileCompleted ==
    /\ pc = "readFile"
    /\ \E err \in BOOLEAN, clock \in Clocks :
        Apply(requestSigning_readFile(Cur, err, CsrFile, clock), last_nonce, FALSE)
    /\ last' = NoLast
    /\ UNCHANGED <<last_nonce, issued, prev, op, withInteraction, hist>>

\* child_process.exec of the key and CSR generator completed
ExecCompleted ==
    /\ pc = "exec"
    /\ \E e \in BOOLEAN :
        /\ Apply(requestCertificate_createKeyPair(Cur, e), last_nonce, FALSE)
        /\ hist' = [hist EXCEPT !.exec = IF e THEN "failed" ELSE "ok"]
    /\ last' = NoLast
    /\ UNCHANGED <<last_nonce, issued, prev, op, withInteraction>>

\* fs.writeFile of <domain>.der completed, with or without error
WriteFileCompleted ==
    /\ pc = "writeFile"
    /\ \E err \in BOOLEAN :
        /\ Apply(requestCertificate_writeFile(Cur, err), last_nonce, FALSE)
        /\ hist' = [hist EXCEPT !.der = IF err THEN "error" ELSE "written"]
    /\ last' = NoLast
    /\ UNCHANGED <<last_nonce, issued, prev, op, withInteraction>>

\* the new-cert POST of requestSigning: no errorCallback
NewCertCompleted ==
    /\ pc = "newCert"
    /\ \E w \in Wires({201, 400}, Bodies({[t |-> "object"], JsonString, JsonFalsy}), CaNonce,
                      {"undefined", CertLocation}, {"undefined"}) :
        /\ Completed(w)
        /\ last' = [of |-> "newCert", w |-> w]
        /\ Apply(IF request(w).cb = "callback"
                 THEN requestSigning_post(Cur, request(w).ans, request(w).res)
                 ELSE DoNothing(Cur),
                 NonceAfter(w, last_nonce), FALSE)
    /\ UNCHANGED hist

\* ---- requests on one JWebClient that do not wait for each other
\* what the overlapping requests leave alone
EngineUnchanged ==
    UNCHANGED <<clientProfilePubKey, directory, regLink, tosLink,
                withInteraction, op, pc, retry, uri, poll_uri, challenge,
                cbCount, result, last, gets, tosPosts, hist, input, output>>

\* JWebClient.get called while other requests may be outstanding
IssueGet ==
    /\ pc = "idle" /\ op = "none"
    /\ Len(flight) < MaxRequests
    /\ req' = get("https://ca/any")
    /\ flight' = Append(flight,
                        [method |-> "GET", nonce |-> "none", state |-> "out"])
    /\ UNCHANGED <<last_nonce, issued, signed, reused, prev>>
    /\ EngineUnchanged

\* JWebClient.post called while other requests may be outstanding: the JWS
\* is built with the nonce cached at the call
IssuePost ==
    /\ pc = "idle" /\ op = "none"
    /\ Len(flight) < MaxRequests
    /\ LET r == post("https://ca/any", [resource |-> "any"], last_nonce)
           n == IF "nonce" \in DOMAIN r.header THEN r.header.nonce ELSE "none"
       IN  /\ req' = r
           /\ flight' = Append(flight,
                               [method |-> "POST", nonce |-> n, state |-> "out"])
           /\ signed' = IF n = "none" THEN signed ELSE signed \cup {n}
           /\ reused' = (reused \/ n \in signed)
    /\ UNCHANGED <<last_nonce, issued, prev>>
    /\ EngineUnchanged

\* an outstanding request completes, in any order: the wrapper of get/post
\* saves the replay-nonce on the success path; the request counts as
\* successful when the success callback ran with a status < 400
RequestCompleted ==
    /\ \E i \in DOMAIN flight :
        /\ flight[i].state = "out"
        /\ \E w \in Wires({200, 400}, Bodies({[t |-> "object"]}), AnyNonce,
                          {"undefined"}, {"undefined"}) :
            /\ last_nonce' = NonceAfter(w, last_nonce)
            /\ issued' = IF ~w.neterr /\ w.nonce # "undefined" THEN issued + 1
                         ELSE issued
            /\ prev' = IF w.neterr THEN "no response" ELSE w.nonce
            /\ flight' = [flight EXCEPT ![i].state =
                              IF request(w).cb = "callback" /\ w.status < 400
                              THEN "ok" ELSE "err"]
    /\ UNCHANGED <<req, signed, reused>>
    /\ EngineUnchanged

NextOverlap ==
    \/ IssueGet
    \/ IssuePost
    \/ RequestCompleted

SpecOverlap == Init /\ [][NextOverlap]_vars

\* any sequence of get and post calls on one JWebClient
NextTransport ==
    \/ CallGet
    \/ CallPost
    \/ GetCompleted
    \/ PostCompleted

SpecTransport == Init /\ [][NextTransport]_vars

\* one operation of an AcmeClient, from its construction to its outcome
Next ==
    \/ CallGetProfile
    \/ CallAuthorizeDomain
    \/ CallPollUntilValid
    \/ CallPollUntilIssued
    \/ CallRequestSigning
    \/ CallRequestCertificate
    \/ CallCreateAccount
    \/ DirectoryCompleted
    \/ NewRegCompleted
    \/ RegCompleted
    \/ TosCompleted
    \/ NewAuthzCompleted
    \/ WriteChallengeCompleted
    \/ QuestionAnswered
    \/ AcceptCompleted
    \/ PollValidCompleted
    \/ PollValidTimer
    \/ PollIssuedCompleted
    \/ PollIssuedTimer
    \/ ReadFileCompleted
    \/ NewCertCompleted
    \/ ExecCompleted
    \/ WriteFileCompleted

Spec == Init /\ [][Next]_vars

\* ---------------------------------------------------- helper functions
\* A string is the sequence of its UTF-16 code units.
\* the character class of regex_file, resp. of regex_path:
\* < > : " / \ | ? * (no / in a path), U+0000-U+001F, U+007F, U+0080-U+009F
RegexClass(withPath) ==
    {60, 62, 58, 34, 92, 124, 63, 42} \cup (0..31) \cup {127} \cup (128..159)
    \cup (IF withPath THEN {} ELSE {47})

\* Number.prototype.toString(16).toLocaleUpperCase(): the digits, no padding
RECURSIVE toString16(_)
toString16(n) ==
    LET digit(d) == IF d < 10 THEN 48 + d ELSE 55 + d
    IN  IF n < 16 THEN <<digit(n)>>
        ELSE toString16(n \div 16) \o <<digit(n % 16)>>

\* String.prototype.replace with a global regex and the replacer of
\* makeSafeFileName: % and the code of the character
replace(str, class) ==
    LET replacer(charToReplace) == <<37>> \o toString16(charToReplace)
    IN  join([i \in DOMAIN str |-> IF str[i] \in class THEN replacer(str[i])
                                    ELSE <<str[i]>>])

\* makeSafeFileName with the percent sign in the character class
makeSafeFileName_encodingPercent(name, withPath) ==
    replace(IF name.t = "string" THEN name.s ELSE <<>>, RegexClass(withPath) \cup {37})

\* makeSafeFileName with the class of regex_path whatever withPath is
makeSafeFileName_pathClass(name, withPath) ==
    replace(IF name.t = "string" THEN name.s ELSE <<>>, RegexClass(TRUE))

makeSafeFileName(name, withPath) ==
    replace(IF name.t = "string" THEN name.s ELSE <<>>, RegexClass(withPath))

\* "mailto:"
prefix == <<109, 97, 105, 108, 116, 111, 58>>

\* String.prototype.indexOf: the first position, from 0, or -1
indexOf(str, searchString) ==
    LET at == {i \in 0..Len(str) :
                  /\ i + Len(searchString) <= Len(str)
                  /\ SubSeq(str, i + 1, i + Len(searchString)) = searchString}
    IN  IF at = {} THEN -1 ELSE CHOOSE i \in at : \A k \in at : i <= k

\* String.prototype.substr(start)
substr(str, start) == SubSeq(str, start + 1, Len(str))

\* filter the strings that begin with the prefix, then pop(): the last one
extractEmail(profile) ==
    IF ~InstanceOfObject(profile) \/ FieldVal(profile, "contact").t # "array"
    THEN Undefined
    ELSE LET keep(entry) == IF entry.t # "string" THEN FALSE
                            ELSE indexOf(entry.s, prefix) = 0
             found == SelectSeq(profile.contact.list, keep)
         IN  IF found = <<>> THEN Undefined
             ELSE [t |-> "string", s |-> substr(found[Len(found)].s, Len(prefix))]

\* what the helpers leave alone
HelperUnchanged ==
    UNCHANGED <<last_nonce, clientProfilePubKey, directory, regLink, tosLink,
                withInteraction, op, pc, req, retry, uri, poll_uri, challenge,
                cbCount, result, issued, signed, reused, prev, last, gets,
                tosPosts, hist, flight, input>>

\* makeSafeFileName called on the name, and then on what it returned
MakeSafeFileNameCalled ==
    /\ input.f = "makeSafeFileName"
    /\ Len(output) < 2
    /\ output' = Append(output,
                        makeSafeFileName(IF output = <<>> THEN input.name
                                         ELSE [t |-> "string", s |-> output[1]],
                                         input.withPath))
    /\ HelperUnchanged

ExtractEmailCalled ==
    /\ input.f = "extractEmail"
    /\ output = <<>>
    /\ output' = <<extractEmail(input.profile)>>
    /\ HelperUnchanged

MakeCertRequestCalled ==
    /\ input.f = "makeCertRequest"
    /\ output = <<>>
    /\ output' = <<makeCertRequest(input.csr, input.days_valid, input.clock)>>
    /\ HelperUnchanged

\* challenge objects
ChallengeObjects ==
    {[t |-> "object", type |-> ty, token |-> tok, uri |-> u] :
        ty \in ChallengeTypes, tok \in 1..2,
        u \in {"https://ca/challenge", "https://ca/challenge/2"}}

\* an engine with the cached key and the registration link given
EngineWith(key, link) ==
    [Fresh EXCEPT !.clientProfilePubKey = key, !.regLink = link]

MakeKeyAuthorizationCalled ==
    /\ input.f = "makeKeyAuthorization"
    /\ output = <<>>
    /\ output' = <<makeKeyAuthorization(EngineWith(input.key[1], "null"),
                                        input.challenge[1]),
                   makeKeyAuthorization(EngineWith(input.key[2], input.link),
                                        input.challenge[2])>>
    /\ HelperUnchanged

\* the order of the fields of a payload
PayloadNames == <<"hello", "resource">>

CreateJWTCalled ==
    /\ input.f = "createJWT"
    /\ output = <<>>
    /\ output' = <<createJWT(input.nonce, input.payload, PayloadNames, "RS256",
                             input.key, input.jwk)>>
    /\ HelperUnchanged

\* The arguments the helpers are called with.
\* makeSafeFileName: names of tab, " % / < A, U+007F, U+009F, U+00A0, and
\* no string.  extractEmail: no profile, profiles without contact, with a
\* contact that is no list, and with lists of mailto:a, mailto:b, tel:1,
\* amailto: and null.  makeCertRequest: csr "Hi", "", the file as read,
\* nothing; days_valid a number, NaN, a string, nothing; the clock.
\* makeKeyAuthorization: two engines with cached keys, with or without e
\* and n, of any alg, and two challenges.  createJWT: nonces, payloads of
\* strings with a field possibly undefined, a PEM key and a key object.
HelperInputs ==
    LET NameChars == {9, 34, 37, 47, 60, 65, 127, 159, 160}
        Names == UNION {[1..n -> NameChars] : n \in 0..MaxNameLen}
        ContactEntries ==
            {[t |-> "string", s |-> str] :
                str \in {prefix \o <<97>>, prefix \o <<98>>,
                         <<116, 101, 108, 58, 49>>, <<97>> \o prefix}}
            \cup {JsonFalsy}
        Profiles ==
            {Undefined, [t |-> "object"],
             [t |-> "object", contact |-> [t |-> "string", s |-> prefix \o <<97>>]]}
            \cup UNION {{[t |-> "object", contact |-> [t |-> "array", list |-> l]] :
                            l \in [1..n -> ContactEntries]} : n \in 0..MaxContacts}
        DaysValid ==
            {[t |-> "number", nan |-> FALSE, q |-> k] :
                k \in (-MaxQuarters)..MaxQuarters}
            \cup {[t |-> "number", nan |-> TRUE, q |-> 0],
                  [t |-> "string", s |-> <<57, 48>>], Undefined}
        Csrs == {[t |-> "string", s |-> <<72, 105>>], [t |-> "string", s |-> <<>>],
                 CsrFile, Undefined}
        KeyObjects ==
            {[t |-> "object", e |-> e, kty |-> "RSA", n |-> n, alg |-> a] :
                e \in {"AQAB", "AQAC"}, n \in {"modulus", "other"},
                a \in {"RS256", "RS512"}}
            \cup {[t |-> "object", kty |-> k] : k \in {"RSA", "EC"}}
            \cup {[t |-> "object"]}
        Payloads ==
            {[hello |-> "world"], [resource |-> "new-reg"],
             [resource |-> "new-reg", hello |-> "world"],
             [resource |-> "new-reg", hello |-> "undefined"], [t \in {} |-> ""]}
        SigningKeys ==
            {[t |-> "string", s |-> <<45, 45>>],
             [t |-> "object", k |-> <<83, 71, 107>>]}
    IN  {[f |-> "makeSafeFileName", name |-> n, withPath |-> wp] :
            n \in {[t |-> "string", s |-> str] : str \in Names} \cup {Undefined},
            wp \in BOOLEAN}
        \cup {[f |-> "extractEmail", profile |-> p] : p \in Profiles}
        \cup {[f |-> "makeCertRequest", csr |-> c, days_valid |-> d, clock |-> k] :
                 c \in Csrs, d \in DaysValid, k \in Clocks}
        \cup {[f |-> "makeKeyAuthorization", key |-> k, link |-> l, challenge |-> c] :
                 k \in KeyObjects \X KeyObjects, l \in {"null", RegLocation},
                 c \in ChallengeObjects \X ChallengeObjects}
        \cup {[f |-> "createJWT", nonce |-> n, payload |-> pl, key |-> k, jwk |-> j] :
                 n \in {"null", "undefined", "", "n1"}, pl \in Payloads,
                 k \in SigningKeys, j \in {"public_jwk", "undefined"}}

InitHelpers ==
    /\ InitBase
    /\ input \in HelperInputs
    /\ output = <<>>

NextHelpers ==
    \/ MakeSafeFileNameCalled
    \/ ExtractEmailCalled
    \/ MakeCertRequestCalled
    \/ MakeKeyAuthorizationCalled
    \/ CreateJWTCalled

\* one helper function called with any arguments
SpecHelpers == InitHelpers /\ [][NextHelpers]_vars

\* ------------------------------------------------------------ properties
\* the answer and the response object the transport handed to the
\* continuation of the request completed last
Delivered == last.of # "none" /\ request(last.w).cb = "callback"
LastAns == request(last.w).ans
LastRes == request(last.w).res

\* C1: the nonce header of every POST equals the replay-nonce header of the
\* response to the request issued just before it, and the JWS header has no
\* nonce field when that response carried no replay-nonce or when no
\* request preceded.
C1_PostCarriesPrecedingReplayNonce ==
    pc = "post" =>
        /\ prev \in FreshNonces =>
              "nonce" \in DOMAIN req.header /\ req.header.nonce = prev
        /\ prev \in {"none", "undefined"} => "nonce" \notin DOMAIN req.header

\* C2: once a POST has completed, in whatever way, the nonce that signed it
\* is no longer the cached nonce, and no two POSTs are signed with the same
\* nonce.
C2_SigningNonceDiscarded ==
    /\ (req.method = "POST" /\ pc = "idle" /\ "nonce" \in DOMAIN req.header)
          => last_nonce # req.header.nonce
    /\ ~reused

\* C3: authorizeDomain whose first new-authz POST is answered 403, whose TOS
\* agreement succeeds, and whose second new-authz POST returns a location
\* and a challenge list with an http-01 entry goes on to prepare and accept
\* the challenge; when the acceptance is answered with a status < 400 and
\* the poll with a non-pending object, it ends with that object as its
\* result, its callback invoked once.
C3_TosRecoverySucceeds ==
    (op = "authorizeDomain" /\ hist.authz = <<"403", "good">>) =>
        /\ hist.accept = "none" => pc \in {"writeChallenge", "question", "accept"}
        /\ hist.accept = "lt400" => pc \in {"pollValid", "timerValid", "idle", "hung"}
        /\ (/\ hist.accept = "lt400"
            /\ last.of = "pollValid" /\ Delivered
            /\ LastAns.t = "object"
            /\ FieldStr(LastAns, "status") # "pending")
              => pc = "idle" /\ cbCount = 1 /\ result = LastAns

\* C3 happens: the operation ended in success after one TOS cycle
C3_Witness ==
    /\ op = "authorizeDomain" /\ hist.authz = <<"403", "good">>
    /\ hist.accept = "lt400" /\ tosPosts = 1
    /\ last.of = "pollValid" /\ pc = "idle" /\ cbCount = 1
    /\ result = [t |-> "object", status |-> "valid"]

\* C4: authorizeDomain sends at most one TOS-agreement POST, and a second
\* 403 from new-authz ends the operation with callback(false).
C4_OneTosCycle ==
    op = "authorizeDomain" =>
        /\ tosPosts <= 1
        /\ (Len(hist.authz) >= 2 /\ hist.authz[2] = "403")
              => pc = "idle" /\ cbCount = 1 /\ result = False

\* C5: a poller called without a retry argument never issues a ninth GET,
\* and against a server that answers every GET with "pending" (for
\* pollUntilIssued: with an empty body and a status < 400) it ends after
\* exactly eight GETs with its callback invoked once, with false.
C5_PollersStopAfterEightGets ==
    /\ gets <= 8
    /\ (op \in {"pollUntilValid", "pollUntilIssued"} /\ hist.allPending) =>
          /\ pc \in {"pollValid", "timerValid", "pollIssued", "timerIssued",
                     "idle"}
          /\ cbCount = (IF pc = "idle" THEN 1 ELSE 0)
          /\ pc = "idle" => gets = 8 /\ result = False

\* C5 happens: pollUntilValid gave up on a server that always answers
\* "pending"
C5_Witness ==
    /\ op = "pollUntilValid" /\ hist.allPending /\ pc = "idle"
    /\ gets = 8 /\ retry = 256 /\ cbCount = 1 /\ result = False

\* C6: getProfile, authorizeDomain and requestCertificate never end up with
\* nothing pending and their callback never invoked: a request that ends in
\* a transport error or a JSON decode error leads to the callback.
C6_EveryErrorReported ==
    op \in {"getProfile", "authorizeDomain", "requestCertificate"} =>
        ~(pc = "hung" /\ cbCount = 0)

\* C7: when the new-cert POST of requestSigning is answered with a status
\* < 400 and an empty body, the engine polls the URL of the location header
\* with pollUntilIssued.
C7_EmptyAnswerIsPolled ==
    (/\ last.of = "newCert" /\ ~last.w.neterr
     /\ last.w.status < 400 /\ last.w.raw.k = "empty") =>
        /\ pc = "pollIssued"
        /\ req = get(last.w.location)
        /\ cbCount = 0

\* C8: the challenge authorizeDomain works with is the first entry of
\* ans.challenges of type "http-01"; when challenges is no list or has no
\* entry of that type nothing is selected and the operation fails.
C8_FirstMatchingChallenge ==
    (/\ last.of = "newAuthz" /\ Delivered
     /\ last.w.status # 403 /\ last.w.location # "undefined"
     /\ InstanceOfObject(LastAns)) =>
        LET list == IF FieldVal(LastAns, "challenges").t = "array"
                    THEN LastAns.challenges.list ELSE <<>>
            hits == {i \in DOMAIN list : list[i].type = "http-01"}
        IN  IF hits = {}
            THEN challenge = Undefined /\ pc = "idle" /\ result = False
            ELSE \E i \in hits : /\ \A j \in hits : i <= j
                                 /\ challenge = list[i]

\* C9: pollUntilValid reschedules itself iff the body of the GET's response
\* is a JSON object with status "pending", passes the body on as its result
\* iff it is any other JSON object, and ends with callback(false) for every
\* body that is no JSON object (raw bytes, an empty body, a JSON
\* non-object).
C9_PollUntilValidOutcomes ==
    (last.of = "pollValid" /\ Delivered) =>
        IF LastAns.t = "object"
        THEN IF FieldStr(LastAns, "status") = "pending"
             THEN pc = "timerValid" /\ cbCount = 0
             ELSE pc = "idle" /\ cbCount = 1 /\ result = LastAns
        ELSE pc = "idle" /\ cbCount = 1 /\ result = False

\* C10: pollUntilIssued passes the body of the GET's response on as its
\* result iff the body is a non-empty byte buffer; otherwise it reschedules
\* iff the status is < 400, and otherwise ends with callback(false), no
\* further GET issued.
C10_PollUntilIssuedOutcomes ==
    (op = "pollUntilIssued" /\ last.of = "pollIssued" /\ Delivered) =>
        IF LastAns.t = "Buffer" /\ LastAns.len > 0
        THEN pc = "idle" /\ cbCount = 1 /\ result = LastAns
        ELSE IF last.w.status < 400
             THEN pc = "timerIssued" /\ cbCount = 0
             ELSE /\ pc = "idle" /\ cbCount = 1 /\ result = False
                  /\ req = get(uri)

\* C10 happens: a poll answered 400 with a JSON body ended the operation
C10_Witness ==
    /\ op = "pollUntilIssued" /\ last.of = "pollIssued" /\ Delivered
    /\ LastAns.t = "object" /\ last.w.status = 400
    /\ pc = "idle" /\ result = False

\* C11: after a 403 on new-authz, authorizeDomain restarts the authorization
\* when the agreement is answered with a JSON object and a status in
\* 200..399; every other agreement response ends the operation with
\* callback(false), no further new-authz POST sent.
C11_RestartOnlyAfterAgreement ==
    (op = "authorizeDomain" /\ last.of = "tos" /\ ~last.w.neterr) =>
        IF Delivered /\ LastAns.t = "object" /\ last.w.status \in 200..399
        THEN pc = "directory"
        ELSE pc = "idle" /\ cbCount = 1 /\ result = False

\* C12: getProfile GETs directory_url, then POSTs to the directory's new-reg
\* URL, then POSTs to the location of the new-reg response, each after the
\* response before it; a directory body that is no object, or a new-reg
\* response without location, ends it with false and no further request;
\* the reg response's profile object is its result.
C12_GetProfileSequence ==
    op = "getProfile" =>
        /\ pc = "directory" => req = get(directory_url) /\ last.of = "none"
        /\ last.of = "directory" =>
              IF Delivered /\ LastAns.t = "object"
              THEN /\ pc = "newReg" /\ req.method = "POST"
                   /\ req.url = FieldStr(LastAns, "new-reg")
              ELSE /\ pc = "idle" /\ cbCount = 1 /\ result = False
                   /\ req = get(directory_url)
        /\ (last.of = "newReg" /\ Delivered /\ last.w.location # "undefined")
              => pc = "reg" /\ req.method = "POST" /\ req.url = last.w.location
        /\ (last.of = "newReg" /\ ~last.w.neterr /\ last.w.location = "undefined")
              => /\ pc = "idle" /\ cbCount = 1 /\ result = False
                 /\ req.payload.resource = "new-reg"
        /\ (last.of = "reg" /\ Delivered /\ LastAns.t = "object")
              => pc = "idle" /\ cbCount = 1 /\ result = LastAns

\* C13: a reg response (of getRegistration or agreeTos) whose body is a JSON
\* object sets clientProfilePubKey to the body's key field and tosLink to
\* the terms-of-service URL of the link header, null without one; a body
\* that is no object leaves both unchanged and hands false to the callback.
C13_RegistrationCaches ==
    [][(pc \in {"reg", "tos"} /\ last'.of \in {"reg", "tos"}
        /\ request(last'.w).cb = "callback") =>
          IF request(last'.w).ans.t = "object"
          THEN /\ clientProfilePubKey' = FieldVal(request(last'.w).ans, "key")
               /\ tosLink' = (IF last'.w.link = TosLinkHeader
                              THEN "https://ca/tos" ELSE "null")
          ELSE /\ clientProfilePubKey' = clientProfilePubKey
               /\ tosLink' = tosLink
               /\ op # "requestCertificate" => pc' = "idle" /\ result' = False
      ]_vars

\* C14: when getProfile reports failure inside authorizeDomain (no directory
\* object, no location from new-reg, no profile object from reg),
\* authorizeDomain invokes its callback with false; the last request it
\* issued is one of getProfile's, nothing else is pending.
C14_NoAuthorizationWithoutProfile ==
    (/\ op = "authorizeDomain"
     /\ \/ last.of = "directory" /\ ~InstanceOfObject(LastAns)
        \/ last.of = "newReg"
           /\ (~Delivered \/ last.w.location = "undefined")
        \/ last.of = "reg" /\ Delivered /\ ~InstanceOfObject(LastAns)) =>
        /\ pc = "idle" /\ cbCount = 1 /\ result = False
        /\ req.method = "POST" => req.payload.resource \in {"new-reg", "reg"}

\* C14 happens: the reg POST inside authorizeDomain was answered with JSON
\* null
C14_Witness ==
    /\ op = "authorizeDomain" /\ last.of = "reg" /\ Delivered
    /\ LastAns = JsonFalsy /\ tosPosts = 0
    /\ pc = "idle" /\ result = False

\* C17: the directory cache only ever holds a JSON object; a directory
\* response with any other body (raw bytes, an empty body, a JSON
\* non-object) leaves the operation failed.
C17_DirectoryIsJsonObject ==
    /\ directory.t = "object"
    /\ (last.of = "directory" /\ ~last.w.neterr
        /\ ~(Delivered /\ LastAns.t = "object"))
          => pc = "idle" /\ cbCount = 1 /\ result = False

\* C15: createAccount with a string email reports the location header of
\* the new-reg response, cached as regLink, iff that response has status 201
\* and a location header, and otherwise reports false with regLink
\* unchanged; with an email that is no string it reports false and issues
\* no request.
C15_CreateAccountOutcome ==
    [][/\ (op = "createAccount" /\ pc = "newReg" /\ last'.of = "newReg") =>
            /\ pc' = "idle" /\ cbCount' = 1
            /\ IF /\ request(last'.w).cb = "callback"
                  /\ last'.w.status = 201
                  /\ last'.w.location # "undefined"
               THEN /\ result' = [t |-> "string", v |-> last'.w.location]
                    /\ regLink' = last'.w.location
               ELSE result' = False /\ regLink' = regLink
       /\ (pc = "idle" /\ op' = "createAccount" /\ hist'.email.t # "string") =>
            /\ pc' = "idle" /\ cbCount' = 1 /\ result' = False
            /\ req' = req /\ regLink' = regLink
      ]_vars

\* C15 happens: an account was created and its location cached
C15_Witness ==
    /\ op = "createAccount" /\ pc = "idle" /\ cbCount = 1
    /\ last.of = "newReg" /\ last.w.status = 201
    /\ regLink = AccountLocation
    /\ result = [t |-> "string", v |-> AccountLocation]

\* C16 as stated: the new-reg POST of createAccount is issued on the
\* directory response of a GET that createAccount made first.
C16_DirectoryFetchedFirst ==
    (op = "createAccount" /\ pc = "newReg") => last.of = "directory"

\* C16 amended: createAccount with a string email makes no directory GET;
\* on the call it POSTs {resource: "new-reg", contact: ["mailto:" + email]}
\* to the new-reg URL of the directory the engine has cached, and that POST
\* is its only request.
C16_PostsToCachedDirectory ==
    [][/\ (pc = "idle" /\ op' = "createAccount" /\ hist'.email.t = "string") =>
            /\ pc' = "newReg"
            /\ directory' = directory
            /\ req' = post(FieldStr(directory, "new-reg"),
                           [resource |-> "new-reg",
                            contact |-> <<"mailto:" \o hist'.email.v>>],
                           last_nonce)
       /\ (op = "createAccount" /\ pc # "idle") =>
            pc = "newReg" /\ pc' = "idle" /\ req' = req
      ]_vars

\* C16 happens: the POST went to the new-reg URL an earlier getProfile had
\* cached
C16_Witness ==
    /\ op = "createAccount" /\ pc = "newReg" /\ last.of = "none"
    /\ directory = DirectoryObject
    /\ req.method = "POST" /\ req.url = "https://ca/new-reg"
    /\ req.payload.contact = <<"mailto:a@b.c">>

\* C18: requestCertificate runs profile, key and CSR generation, signing
\* request and file write in this order; it reports true iff the
\* certificate data requestSigning returned was written to the .der file
\* without error, and false when the generator fails, when the signing ends
\* without certificate data, or when the write fails; the file is written
\* only after generator and signing succeeded.
C18_CertificateWrittenIffTrue ==
    op = "requestCertificate" =>
        /\ pc = "idle" =>
              /\ cbCount = 1 /\ result \in {True, False}
              /\ result = True <=> hist.der = "written"
        /\ hist.exec = "failed" =>
              pc = "idle" /\ result = False /\ hist.der = "none"
        /\ (pc = "idle" /\ hist.exec = "ok" /\ hist.der = "none") => result = False
        /\ hist.der # "none" => hist.exec = "ok" /\ pc = "idle"
        /\ pc \in {"directory", "newReg", "reg", "exec"} => hist.exec = "none"
        /\ pc = "exec" => last.of \in {"directory", "newReg", "reg"}
        /\ pc \in {"readFile", "newCert", "pollIssued", "timerIssued", "writeFile"}
              => hist.exec = "ok" /\ hist.der = "none"

\* C18 happens: a certificate was written and true reported
C18_Witness ==
    /\ op = "requestCertificate" /\ pc = "idle" /\ cbCount = 1
    /\ hist.exec = "ok" /\ hist.der = "written" /\ result = True

\* C19: a GET or POST that ends without a response invokes the error
\* callback once and the success callback never, and leaves last_nonce as
\* it was when the request was issued.
C19_TransportErrorKeepsNonce ==
    [][(pc \in {"get", "post"} /\ pc' = "idle" /\ prev' = "no response") =>
          /\ cbCount' = 1
          /\ result' = [t |-> "errorCallback"]
          /\ last_nonce' = last_nonce
          /\ req' = req
          /\ req.method = "POST" =>
               IF "nonce" \in DOMAIN req.header
               THEN last_nonce' = req.header.nonce
               ELSE last_nonce' \in {"null", "undefined"}
      ]_vars

\* C19 happens: a POST signed with a cached nonce ended without a response
C19_Witness ==
    /\ op = "post" /\ pc = "idle" /\ prev = "no response"
    /\ result = [t |-> "errorCallback"] /\ cbCount = 1
    /\ last_nonce \in FreshNonces /\ req.header.nonce = last_nonce

\* C20: whatever the interleaving of the requests issued on one JWebClient,
\* a POST issued while another request is outstanding included, no POST
\* carries a nonce that an earlier POST which was successful carried.
C20_NoNonceOfEarlierSuccessfulPost ==
    \A i, j \in DOMAIN flight :
        (/\ i < j
         /\ flight[i].method = "POST" /\ flight[j].method = "POST"
         /\ flight[i].state = "ok" /\ flight[i].nonce # "none")
            => flight[j].nonce # flight[i].nonce

\* C23: the name makeSafeFileName returns holds none of the characters
\* < > : " / \ | ? *, U+0000..U+001F, U+007F..U+009F (but may hold / when
\* withPath is set): every other character of the input is kept, in order,
\* and each of these is replaced by % and its code in uppercase hex.
C23_SafeNameHasNoForbiddenCharacter ==
    (input.f = "makeSafeFileName" /\ Len(output) >= 1) =>
        LET forbidden == ({60, 62, 58, 34, 47, 92, 124, 63, 42} \cup (0..31)
                          \cup (127..159))
                         \ (IF input.withPath THEN {47} ELSE {})
            in == IF input.name.t = "string" THEN input.name.s ELSE <<>>
            digits == <<48, 49, 50, 51, 52, 53, 54, 55, 56, 57,
                        65, 66, 67, 68, 69, 70>>
            hex(c) == IF c < 16 THEN <<digits[c + 1]>>
                      ELSE <<digits[(c \div 16) + 1], digits[(c % 16) + 1]>>
            piece(c) == IF c \in forbidden THEN <<37>> \o hex(c) ELSE <<c>>
            out == output[1]
        IN  /\ \A i \in DOMAIN out : out[i] \notin forbidden
            /\ \/ in = <<>> /\ out = <<>>
               \/ Len(in) = 1 /\ out = piece(in[1])
               \/ Len(in) = 2 /\ out = piece(in[1]) \o piece(in[2])
               \/ Len(in) = 3 /\ out = piece(in[1]) \o piece(in[2]) \o piece(in[3])

\* C23 happens: "/<" became "%2F%3C"
C23_Witness ==
    /\ input.f = "makeSafeFileName" /\ ~input.withPath
    /\ input.name = [t |-> "string", s |-> <<47, 60>>]
    /\ output = <<<<37, 50, 70, 37, 51, 67>>>>

\* C24: makeSafeFileName applied to what it returned returns the same, and
\* a name without forbidden character is returned unchanged.
C24_SafeNameIdempotent ==
    (input.f = "makeSafeFileName" /\ Len(output) = 2) =>
        /\ output[2] = output[1]
        /\ (input.name.t = "string"
            /\ \A i \in DOMAIN input.name.s :
                  input.name.s[i] \notin RegexClass(input.withPath))
              => output[1] = input.name.s

\* C24 happens: a name with a percent sign and a forbidden character went
\* through twice
C24_Witness ==
    /\ input.f = "makeSafeFileName" /\ input.withPath
    /\ input.name = [t |-> "string", s |-> <<37, 34>>]
    /\ output = <<<<37, 37, 50, 50>>, <<37, 37, 50, 50>>>>

\* C25: extractEmail returns the first entry of profile.contact that is a
\* string beginning with "mailto:", without that prefix, skipping entries
\* that are no strings, and returns nothing when there is no such entry or
\* contact is no list.
C25_FirstMailtoEntry ==
    (input.f = "extractEmail" /\ output # <<>>) =>
        LET mailto == <<109, 97, 105, 108, 116, 111, 58>>
            isList == /\ input.profile.t = "object"
                      /\ "contact" \in DOMAIN input.profile
                      /\ input.profile.contact.t = "array"
            list == IF isList THEN input.profile.contact.list ELSE <<>>
            address(i) == /\ list[i].t = "string"
                          /\ Len(list[i].s) >= 7
                          /\ SubSeq(list[i].s, 1, 7) = mailto
            addresses == {i \in DOMAIN list : address(i)}
        IN  IF addresses = {} THEN output[1] = Undefined
            ELSE LET first == CHOOSE i \in addresses : \A k \in addresses : i <= k
                 IN  output[1] = [t |-> "string",
                                  s |-> SubSeq(list[first].s, 8, Len(list[first].s))]

\* C26: the validity makeCertRequest requests is 1 day when days_valid is
\* no number, NaN or 0, and |days_valid| days otherwise, so it is at least
\* 1 day for every days_valid.  (notAfter is the second reading of the clock
\* plus the validity; a day has 86 400 000 ms, days_valid is in quarters.)
C26_ValidityAtLeastOneDay ==
    (input.f = "makeCertRequest" /\ output # <<>>) =>
        LET validity == output[1].notAfter - input.clock[2]
            d == input.days_valid
            default == d.t # "number" \/ d.nan \/ d.q = 0
        IN  /\ default => validity = 86400000
            /\ ~default => validity * 4 = 86400000 * (IF d.q < 0 THEN -d.q ELSE d.q)
            /\ validity >= 86400000

\* C27: notAfter - notBefore is exactly the effective days times
\* 86 400 000 ms whatever the clock does while the payload is built, and
\* csr is the base64url encoding of the CSR bytes.
C27_ExactValidityAndCsr ==
    (input.f = "makeCertRequest" /\ output # <<>>) =>
        LET d == input.days_valid
            q == IF d.t # "number" \/ d.nan \/ d.q = 0 THEN 4
                 ELSE IF d.q < 0 THEN -d.q ELSE d.q
            bytes == IF input.csr.t = "string" THEN input.csr.s
                     ELSE IF input.csr.t = "Buffer" THEN input.csr.bytes ELSE <<>>
        IN  /\ (output[1].notAfter - output[1].notBefore) * 4 = q * 86400000
            /\ base64url_toBuffer(output[1].csr.s) = bytes
            /\ (bytes = <<72, 105>>) => output[1].csr.s = <<83, 71, 107>>

\* C21: for a challenge and a cached key, makeKeyAuthorization returns the
\* token, a dot and the digest of {e, kty, n} of the cached key in that
\* order; two engines and challenges that agree on the token, e, kty and n
\* get the same key authorization whatever their other fields hold.
C21_KeyAuthorizationOfTokenAndKey ==
    (input.f = "makeKeyAuthorization" /\ output # <<>>) =>
        LET field(key, name) == IF name \in DOMAIN key THEN key[name]
                                ELSE "undefined"
            digest(key) == <<field(key, "e"), field(key, "kty"), field(key, "n")>>
        IN  /\ \A i \in 1..2 :
                  /\ output[i].t = "string"
                  /\ output[i].token = input.challenge[i].token
                  /\ output[i].jwk = digest(input.key[i])
            /\ (/\ input.challenge[1].token = input.challenge[2].token
                /\ digest(input.key[1]) = digest(input.key[2]))
                  => output[1] = output[2]

\* C21 happens: two engines with keys of different alg and registration
\* link, challenges of different type and uri, equal token, e, kty and n
C21_Witness ==
    /\ input.f = "makeKeyAuthorization" /\ output # <<>>
    /\ input.key[1] # input.key[2]
    /\ "e" \in DOMAIN input.key[1] /\ "e" \in DOMAIN input.key[2]
    /\ input.key[1].e = input.key[2].e /\ input.key[1].n = input.key[2].n
    /\ input.link # "null"
    /\ input.challenge[1].token = input.challenge[2].token
    /\ input.challenge[1].type # input.challenge[2].type
    /\ input.challenge[1].uri # input.challenge[2].uri
    /\ output[1] = output[2]

\* C28: in every reachable state of the engine, whatever the reg responses
\* left in clientProfilePubKey, makeChallengeResponse returns for every
\* challenge object a payload with resource "challenge" and a
\* keyAuthorization that is a string.
C28_KeyAuthorizationIsString ==
    \A ch \in ChallengeObjects :
        /\ makeChallengeResponse(Cur, ch).resource = "challenge"
        /\ makeChallengeResponse(Cur, ch).keyAuthorization.t = "string"

\* output.split("."), as the test of createJWT reads the token
RECURSIVE split(_, _)
split(str, sep) ==
    IF \A i \in DOMAIN str : str[i] # sep THEN <<str>>
    ELSE LET at == CHOOSE i \in DOMAIN str :
                       str[i] = sep /\ \A k \in 1..(i - 1) : str[k] # sep
         IN  <<SubSeq(str, 1, at - 1)>> \o split(SubSeq(str, at + 1, Len(str)), sep)

\* C22: createJWT(N, P, "RS256", key, J) returns exactly three parts h.p.s
\* separated by dots; p decodes to P; h decodes to a header with typ "JWT",
\* alg "RS256", jwk equal to J, and a nonce field, equal to N, exactly when
\* N is neither null nor undefined.
C22_ThreePartsHeaderAndPayload ==
    (input.f = "createJWT" /\ output # <<>>) =>
        LET parts == split(output[1], 46)
            decode(part) == JSONparseText(fromUtf8(base64url_toBuffer(part)))
            field(obj, nm) == IF nm \in DOMAIN obj THEN obj[nm] ELSE "undefined"
            h == decode(parts[1])
            p == decode(parts[2])
        IN  /\ Len(parts) = 3
            /\ \A nm \in {"hello", "resource"} :
                  field(p, nm) = field(input.payload, nm)
            /\ DOMAIN p \subseteq {"hello", "resource"}
            /\ field(h, "typ") = "JWT"
            /\ field(h, "alg") = "RS256"
            /\ field(h, "jwk") = input.jwk
            /\ ("nonce" \in DOMAIN h) <=> (input.nonce \notin {"null", "undefined"})
            /\ ("nonce" \in DOMAIN h) => h.nonce = input.nonce

\* C22 happens: a token was made with the empty string as nonce, and one
\* part of it is the payload {"hello": "world"}
C22_Witness ==
    /\ input.f = "createJWT" /\ output # <<>>
    /\ input.nonce = ""
    /\ input.payload = [hello |-> "world"]
    /\ Len(split(output[1], 46)) = 3
    /\ JSONparseText(fromUtf8(base64url_toBuffer(split(output[1], 46)[2])))
           = [hello |-> "world"]

\* C29: whatever the engine does, regLink changes only to the location
\* header of a new-reg response just received, clientProfilePubKey only to
\* the key field of a reg response just received, and directory only to the
\* body of a directory response just received: no other value is stored.
C29_OnlyReceivedValuesStored ==
    [][/\ regLink' # regLink =>
            /\ last'.of = "newReg" /\ request(last'.w).cb = "callback"
            /\ last'.w.location # "undefined"
            /\ regLink' = last'.w.location
       /\ clientProfilePubKey' # clientProfilePubKey =>
            /\ last'.of \in {"reg", "tos"} /\ request(last'.w).cb = "callback"
            /\ clientProfilePubKey' =
                   (IF /\ request(last'.w).ans.t = "object"
                       /\ "key" \in DOMAIN request(last'.w).ans
                    THEN request(last'.w).ans.key ELSE Undefined)
       /\ directory' # directory =>
            /\ last'.of = "directory" /\ request(last'.w).cb = "callback"
            /\ directory' = request(last'.w).ans
      ]_vars

\* C29 happens: the three caches hold the directory, the location and the
\* key that were received
C29_Witness ==
    /\ directory = DirectoryObject
    /\ regLink = RegLocation
    /\ clientProfilePubKey = AccountKey
    /\ last.of = "reg" /\ Delivered /\ LastAns.t = "object"

C31_AcceptanceAfterWriteAndSignal ==
    op = "authorizeDomain" =>
        /\ pc = "accept" =>
              /\ hist.write # "none"
              /\ withInteraction => hist.signal
        /\ ~withInteraction => pc # "question" /\ ~hist.signal

\* C35: when the write of the key authorization file fails, authorizeDomain
\* reports failure and does not POST the acceptance of the challenge.
C35_WriteErrorReported ==
    (op = "authorizeDomain" /\ hist.write = "error") =>
        /\ pc = "idle" /\ cbCount = 1 /\ result = False
        /\ hist.accept = "none"
        /\ req.payload.resource # "challenge"

\* C32: in authorizeDomain the polling GETs are issued only after the
\* acceptance was answered with a status < 400, and they go to the location
\* of the new-authz response that supplied the accepted challenge; an
\* acceptance answered with a status >= 400 ends the operation with false
\* and without any polling GET.
C32_PollingAfterAcceptedChallenge ==
    op = "authorizeDomain" =>
        /\ (pc \in {"pollValid", "timerValid"} \/ gets > 0) =>
              /\ hist.accept = "lt400"
              /\ hist.authz # <<>> /\ hist.authz[Len(hist.authz)] = "good"
        /\ pc = "pollValid" =>
              /\ req.method = "GET"
              /\ hist.pollAt # "undefined"
              /\ req.url = hist.pollAt
        /\ hist.accept = "ge400" =>
              pc = "idle" /\ cbCount = 1 /\ result = False /\ gets = 0

\* C32 happens: after a terms-of-service cycle whose 403 carried one
\* location, the second poll goes to the other location, which the second
\* new-authz response carried
C32_Witness ==
    /\ op = "authorizeDomain" /\ pc = "pollValid" /\ gets = 2
    /\ hist.authz = <<"403", "good">> /\ hist.accept = "lt400"
    /\ hist.pollAt = "https://ca/authz/2" /\ req.url = "https://ca/authz/2"

\* C33: a poller called without a retry argument waits 500 * 2^(k-1)
\* milliseconds after its k-th GET, k = 1..8: the factor starts at 1 and
\* doubles with every wait, the poller reports false as soon as the factor
\* exceeds 128, and the waits of one operation add up to 127500 ms at most.
C33_BackOffSchedule ==
    LET pow2[n \in 0..9] == IF n = 0 THEN 1 ELSE 2 * pow2[n - 1]
        total[n \in 0..Len(hist.delays)] ==
            IF n = 0 THEN 0 ELSE total[n - 1] + hist.delays[n]
        n == Len(hist.delays)
    IN  /\ n <= 8 /\ n <= gets
        /\ \A k \in 1..n : hist.delays[k] = 500 * pow2[k - 1]
        /\ total[n] <= 127500
        /\ pc \in {"timerValid", "timerIssued"} =>
              n = gets /\ retry = pow2[n - 1]
        /\ pc \in {"pollValid", "pollIssued"} =>
              n = gets - 1 /\ retry = pow2[n] /\ retry <= 128
        /\ retry > 128 =>
              /\ retry = 256 /\ n = 8
              /\ (op \in {"pollUntilValid", "pollUntilIssued"} =>
                      pc = "idle" /\ cbCount = 1 /\ result = False)

\* C33 happens: pollUntilIssued waited eight times, 64 s the last time, and
\* gave up
C33_Witness ==
    /\ op = "pollUntilIssued" /\ pc = "idle" /\ result = False
    /\ Len(hist.delays) = 8 /\ hist.delays[8] = 64000 /\ hist.delays[1] = 500
    /\ retry = 256

\* C36: when getProfile fails during requestCertificate (the profile handed
\* to requestCertificate's continuation is no object), the operation
\* reports false, and neither the external key and CSR generator is
\* invoked nor a new-cert POST issued.
C36_FailedProfileStopsCertificateRequest ==
    (op = "requestCertificate" /\ hist.profile # NoResult
        /\ ~InstanceOfObject(hist.profile)) =>
        /\ pc = "idle" /\ cbCount = 1 /\ result = False
        /\ hist.exec = "none"
        /\ req.method = "POST" => req.payload.resource # "new-cert"

\* C37: authorizeDomain hands a truthy value to its callback only if the
\* last polling GET reported the authorization with status "valid"; a final
\* status "invalid", any other status and a polling timeout give a falsy
\* value.
C37_TruthyOnlyWhenValid ==
    (op = "authorizeDomain" /\ pc = "idle" /\ cbCount > 0) =>
        /\ ~Not(result) =>
              /\ last.of = "pollValid" /\ Delivered
              /\ FieldStr(LastAns, "status") = "valid"
        /\ retry > 128 => Not(result)

\* C38: requestCertificate writes <domain>.der, and reports true, only for
\* non-empty certificate content that came with a response status < 400; an
\* empty response body leads neither to the write nor to true.
C38_DerOnlyFromCertificateContent ==
    op = "requestCertificate" =>
        /\ pc = "writeFile" =>
              /\ last.of \in {"newCert", "pollIssued"} /\ Delivered
              /\ InstanceOfBuffer(LastAns) /\ LastAns.len > 0
              /\ StatusLt(LastRes, 400)
        /\ (pc = "idle" /\ result = True) => hist.der = "written"

\* C34: every completed HTTPS response has exactly one of three outcomes:
\* the success callback with the parsed value when the content-type contains
\* "json" and the body is non-empty valid JSON, the error callback when it
\* contains "json" and the body is non-empty and no valid JSON, and the
\* success callback with the raw bytes otherwise; and get and post issue
\* one request per call, none after the response.
C34_OneOutcomePerResponse ==
    (last.of = "request" /\ ~last.w.neterr) =>
        /\ pc = "idle"
        /\ Len(hist.calls) = 1
        /\ IF last.w.ctJson /\ last.w.raw.k # "empty"
           THEN IF last.w.raw.k = "json"
                THEN hist.calls = <<"callback">> /\ result = last.w.raw.v
                ELSE /\ hist.calls = <<"errorCallback">>
                     /\ result = [t |-> "errorCallback"]
           ELSE /\ hist.calls = <<"callback">>
                /\ result = [t |-> "Buffer",
                             len |-> IF last.w.raw.k = "empty" THEN 0 ELSE 1]

\* C39: the function a caller passes to an operation is invoked at most
\* once per invocation of the operation, also when it is passed as success
\* and as error callback and when it raises an exception.
C39_CallbackAtMostOnce ==
    cbCount <= 1

\* C40: within one top-level operation at most one HTTPS request is
\* outstanding: a request, a poller's GET after its wake-up included, is
\* issued either while none is outstanding or in the step that receives the
\* response to the outstanding one, after the nonce cache took the
\* replay-nonce of that response; a POST is signed with the cache as that
\* response left it.
C40_OneRequestOutstanding ==
    [][LET RequestPcs == {"directory", "newReg", "reg", "tos", "newAuthz",
                          "accept", "pollValid", "pollIssued", "newCert"}
       IN (op' \in {"getProfile", "createAccount", "authorizeDomain",
                     "requestCertificate"} /\ pc' \in RequestPcs) =>
              /\ pc \in RequestPcs =>
                    /\ prev' # "no response"
                    /\ last_nonce' = prev'
              /\ pc \notin RequestPcs =>
                    /\ pc \in {"idle", "timerValid", "timerIssued",
                               "writeChallenge", "question", "readFile"}
                    /\ last_nonce' = last_nonce /\ prev' = prev
              /\ req'.method = "POST" =>
                    IF last_nonce' \in FreshNonces
                    THEN /\ "nonce" \in DOMAIN req'.header
                         /\ req'.header.nonce = last_nonce'
                    ELSE "nonce" \notin DOMAIN req'.header
      ]_vars

\* C40 happens: getProfile issued the reg POST on receiving the new-reg
\* response, signed with the replay-nonce of that response
C40_Witness ==
    /\ op = "getProfile" /\ pc = "reg" /\ req.method = "POST"
    /\ last.of = "newReg" /\ last.w.nonce = "n2"
    /\ prev = "n2" /\ last_nonce = "n2" /\ req.header.nonce = "n2"

====
